---- MODULE Spec2Model ----
(***************************************************************************)
(* Model of internal/version/gotip.go: RunTip and installTip.              *)
(*                                                                         *)
(* Go strings are sequences of one-character strings, so that strconv,     *)
(* string concatenation and the regular expression are computed character  *)
(* by character.  A Go int is 64 bits wide, beyond the integers of the     *)
(* model checker, so an int value is a record [neg, mag]: its sign and the *)
(* canonical decimal digits of its magnitude.                              *)
(***************************************************************************)
EXTENDS FiniteSets, Integers, Sequences, TLC

VARIABLES
    os,        \* runtime.GOOS of the host
    wc,        \* the directory `root` on disk (the Working Copy)
    pc,        \* position of the running process; "idle"/"exited" when none
    runs,      \* number of processes started so far
    args,      \* os.Args of the current process
    target,    \* installTip's parameter
    answer,    \* installTip's local `answer`
    remote,    \* the references the remote reported to ls-remote
    refs,      \* installTip's local `refs`, the bytes ls-remote printed
    ref,       \* installTip's local `ref`
    patchSet,  \* installTip's local `patchSet`
    cmdEnv,    \* cmd.Env of the build command
    log,       \* external operations run by the current process, in order
    err,       \* the error the process ended with
    exitCode,  \* exit status of the process, -1 while it runs
    wc0,       \* the Working Copy when the current process started
    prev,      \* the previous process: did it run installTip, did it have
               \* the arguments of the current one, did it end without error,
               \* did every operation it ran succeed
    out,       \* the lines the current process printed on standard error
    stdin,     \* what the user typed at the prompt, while it is read
    built,     \* some build script has ended without error
    cmdDir     \* cmd.Dir of the build command

vars == <<os, wc, pc, runs, args, target, answer, remote, refs, ref,
          patchSet, cmdEnv, log, err, exitCode, wc0, prev, out, stdin, built,
          cmdDir>>

-----------------------------------------------------------------------------
(* Bounds *)

MaxRuns == 3
MaxLines == 2

-----------------------------------------------------------------------------
(* Strings and Go ints *)

Digits == {"0", "1", "2", "3", "4", "5", "6", "7", "8", "9"}

DigitVal(c) ==
    CASE c = "0" -> 0 [] c = "1" -> 1 [] c = "2" -> 2 [] c = "3" -> 3
      [] c = "4" -> 4 [] c = "5" -> 5 [] c = "6" -> 6 [] c = "7" -> 7
      [] c = "8" -> 8 [] c = "9" -> 9

IsDigits(s) == \A i \in 1..Len(s) : s[i] \in Digits

HasPrefix(s, p) == Len(s) >= Len(p) /\ SubSeq(s, 1, Len(p)) = p

\* math.MaxInt64 = 9223372036854775807 and the magnitude of math.MinInt64
MaxIntMag ==
    <<"9","2","2","3","3","7","2","0","3","6","8","5","4","7","7","5","8","0","7">>
MinIntMag ==
    <<"9","2","2","3","3","7","2","0","3","6","8","5","4","7","7","5","8","0","8">>

IntZero == [neg |-> FALSE, mag |-> <<"0">>]

RECURSIVE StripZeros(_)
StripZeros(s) ==
    IF Len(s) > 1 /\ s[1] = "0" THEN StripZeros(Tail(s)) ELSE s

\* a < b for canonical magnitudes
MagLess(a, b) ==
    \/ Len(a) < Len(b)
    \/ /\ Len(a) = Len(b)
       /\ \E i \in 1..Len(a) :
            /\ DigitVal(a[i]) < DigitVal(b[i])
            /\ \A j \in 1..(i - 1) : a[j] = b[j]

\* x > y on Go ints
IntGreater(x, y) ==
    IF x.neg # y.neg THEN y.neg
    ELSE IF x.neg THEN MagLess(x.mag, y.mag)
    ELSE MagLess(y.mag, x.mag)

\* strconv.Atoi: the value and the error kind ("nil", "syntax", "range")
Atoi(s) ==
    LET signed == Len(s) > 0 /\ s[1] \in {"+", "-"}
        neg    == signed /\ s[1] = "-"
        body   == IF signed THEN Tail(s) ELSE s
    IN  IF Len(body) = 0 \/ ~IsDigits(body)
        THEN [n |-> IntZero, err |-> "syntax"]
        ELSE LET mag   == StripZeros(body)
                 limit == IF neg THEN MinIntMag ELSE MaxIntMag
             IN  IF MagLess(limit, mag)
                 THEN [n |-> [neg |-> neg, mag |-> limit], err |-> "range"]
                 ELSE [n |-> [neg |-> neg /\ mag # <<"0">>, mag |-> mag],
                       err |-> "nil"]

\* strconv.Itoa
Itoa(n) == IF n.neg THEN <<"-">> \o n.mag ELSE n.mag

-----------------------------------------------------------------------------
(* The regular expression of installTip *)

RefsChanges == <<"r","e","f","s","/","c","h","a","n","g","e","s","/">>
RefsHeads   == <<"r","e","f","s","/","h","e","a","d","s","/">>
Master      == <<"m","a","s","t","e","r">>

\* the end of the longest run of digits of s that starts at position i
RECURSIVE DigitRunEnd(_, _)
DigitRunEnd(s, i) ==
    IF i + 1 <= Len(s) /\ s[i + 1] \in Digits THEN DigitRunEnd(s, i + 1) ELSE i

\* `refs/changes/\d\d/` + t + `/(\d+)` matched at position i of s: the
\* position of the last character of the match, 0 when there is none
MatchAt(t, s, i) ==
    LET shard == i + Len(RefsChanges)
        num   == shard + 3
        ps    == num + Len(t) + 1
    IN  IF /\ ps <= Len(s)
           /\ SubSeq(s, i, shard - 1) = RefsChanges
           /\ s[shard] \in Digits
           /\ s[shard + 1] \in Digits
           /\ s[shard + 2] = "/"
           /\ SubSeq(s, num, ps - 2) = t
           /\ s[ps - 1] = "/"
           /\ s[ps] \in Digits
        THEN DigitRunEnd(s, ps)
        ELSE 0

\* r.FindAllStringSubmatch(s, -1) from position i on: the successive
\* leftmost non-overlapping matches, each with m[0] and m[1]
RECURSIVE FindAllFrom(_, _, _)
FindAllFrom(t, s, i) ==
    IF i > Len(s) THEN <<>>
    ELSE LET e == MatchAt(t, s, i)
         IN  IF e = 0 THEN FindAllFrom(t, s, i + 1)
             ELSE <<[m0 |-> SubSeq(s, i, e),
                     m1 |-> SubSeq(s, i + Len(RefsChanges) + Len(t) + 4, e)]>>
                  \o FindAllFrom(t, s, e + 1)

FindAllStringSubmatch(t, s) == FindAllFrom(t, s, 1)

-----------------------------------------------------------------------------
(* fmt.Scanln into a string: blanks are skipped, a newline or the end of   *)
(* the input before any other character is an error that leaves the string *)
(* as it was, otherwise the string is the run of characters up to the next *)
(* blank, newline or end of input; what follows the run gives at most an   *)
(* error, which installTip ignores                                         *)

Blank == {" ", "\t", "\r"}
Newline == "\n"

RECURSIVE SkipSpace(_, _)
SkipSpace(s, i) ==
    IF i <= Len(s) /\ s[i] \in Blank THEN SkipSpace(s, i + 1) ELSE i

RECURSIVE TokenEnd(_, _)
TokenEnd(s, i) ==
    IF i <= Len(s) /\ s[i] \notin Blank \cup {Newline}
    THEN TokenEnd(s, i + 1)
    ELSE i

RECURSIVE LineEnd(_, _)
LineEnd(s, i) ==
    IF i <= Len(s) /\ s[i] # Newline THEN LineEnd(s, i + 1) ELSE i

\* variant: the whole first line is read, blanks included
ScanlnLine(input) == SubSeq(input, 1, LineEnd(input, 1) - 1)

\* the value of `answer`, declared empty, after fmt.Scanln(&answer)
Scanln(input) ==
    LET i == SkipSpace(input, 1)
    IN  IF i > Len(input) \/ input[i] = Newline
        THEN <<>>
        ELSE SubSeq(input, i, TokenEnd(input, i) - 1)
-----------------------------------------------------------------------------
(* Inputs: command lines, answers at the prompt, remote listings *)

Gotip    == <<"g","o","t","i","p">>
Download == <<"d","o","w","n","l","o","a","d">>
Version  == <<"v","e","r","s","i","o","n">>

Targets ==
    { <<>>,
      <<"5">>,
      MinIntMag,
      <<"0","5">>,
      <<"d","e","v">> }

Argvs ==
    {<<Gotip>>, <<Gotip, Version>>, <<Gotip, Download>>,
     <<Gotip, Download, <<"5">>, <<"d","e","v">> >>}
    \cup {<<Gotip, Download, t>> : t \in Targets}

\* what the user may have typed on standard input when the prompt is read;
\* a line without "\n" is ended by the end of the input
StdinLines ==
    { <<"y", "\n">>, <<"y">>, <<" ", "y", "\n">>, <<"y", "\r", "\n">>,
      <<"y", " ", "e", "s", "\n">>, <<"Y", "\n">>, <<"y", "e", "s", "\n">>,
      <<"n", "\n">>, <<"\n">>, <<>>, <<"\n", "y", "\n">> }

\* what fmt.Scanln stores in `answer`
Answers == {Scanln(s) : s \in StdinLines}

SegRefs    == <<"r","e","f","s">>
SegChanges == <<"c","h","a","n","g","e","s">>
SegHeads   == <<"h","e","a","d","s">>

\* one reference of the remote: its revision hash and the segments of its path
LinePool ==
    { [hash |-> <<"a">>, segs |-> <<SegRefs, SegChanges, <<"0","5">>, <<"5">>, <<"0">> >>],
      [hash |-> <<"c">>, segs |-> <<SegRefs, SegChanges, <<"0","5">>, <<"5">>, <<"1","0">> >>],
      [hash |-> <<"d">>, segs |-> <<SegRefs, SegChanges, <<"1","5">>, <<"5">>, <<"1","0">> >>],
      [hash |-> <<"e">>, segs |-> <<SegRefs, SegChanges, <<"0","5">>, <<"5">>, <<"m","e","t","a">> >>],
      [hash |-> <<"f">>, segs |-> <<SegRefs, SegChanges, <<"0","7">>, <<"7">>, <<"3","0">> >>] }

\* the listings of at most MaxLines distinct references
Listings ==
    UNION { { l \in [1..k -> LinePool] :
                \A i, j \in 1..k : i # j => l[i] # l[j] } : k \in 0..MaxLines }

RECURSIVE Join(_)
Join(segs) ==
    IF Len(segs) = 0 THEN <<>>
    ELSE IF Len(segs) = 1 THEN segs[1]
    ELSE segs[1] \o <<"/">> \o Join(Tail(segs))

\* the ref-path of a reference
Path(line) == Join(line.segs)

\* what `git ls-remote` prints: one line per reference, hash, tab, ref-path
RECURSIVE LsRemoteOutput(_)
LsRemoteOutput(l) ==
    IF Len(l) = 0 THEN <<>>
    ELSE l[1].hash \o <<"\t">> \o Path(l[1]) \o <<"\n">>
         \o LsRemoteOutput(Tail(l))

-----------------------------------------------------------------------------
(* The Working Copy and the values of the process *)

NoRef == <<"(none)">>

Absent ==
    [rootDir |-> FALSE, gitDir |-> FALSE, fetchHead |-> NoRef,
     head |-> NoRef, gobin |-> FALSE]

Nil == [msg |-> "nil", arg |-> <<>>]
Error(m, a) == [msg |-> m, arg |-> a]

Op(o, a, ok) == [op |-> o, arg |-> a, ok |-> ok]

MakeBash == <<"m","a","k","e",".","b","a","s","h">>
MakeBat  == <<"m","a","k","e",".","b","a","t">>
MakeRc   == <<"m","a","k","e",".","r","c">>

\* variant: the case plan9 is missing
makeScriptNoPlan9(goos) == IF goos = "windows" THEN MakeBat ELSE MakeBash

makeScript(goos) ==
    CASE goos = "plan9" -> MakeRc
      [] goos = "windows" -> MakeBat
      [] OTHER -> MakeBash

-----------------------------------------------------------------------------
(* The decisions and the effects of the steps of installTip *)

\* variants: the test inverted, the test dropped, the test on root itself
NeedsCloneInverted(w) == w.gitDir
NeedsCloneAlways(w) == TRUE
NeedsCloneRoot(w) == ~w.rootDir

\* os.Stat(filepath.Join(root, ".git")) fails
NeedsClone(w) == ~w.gitDir

\* n >= 1 && strconv.Itoa(n) == target
IsCL(t) ==
    LET n == Atoi(t).n IN IntGreater(n, IntZero) /\ Itoa(n) = t

\* variants: anything but "n" goes on, the case of the answer is ignored
AcceptedUnlessN(a) == a # <<"n">>
AcceptedAnyCase(a) == a \in {<<"y">>, <<"Y">>}

\* the answer that lets installTip go on
Accepted(a) == a = <<"y">>

\* variant: the test for no match is missing
NoMatchNever(match) == FALSE

\* match == nil
NoMatch(match) == Len(match) = 0

\* variant: a match is taken when ps >= patchSet
RECURSIVE SelectLoopGE(_, _, _, _)
SelectLoopGE(match, i, r, p) ==
    IF i > Len(match) THEN [ref |-> r, patchSet |-> p]
    ELSE LET ps == Atoi(match[i].m1).n
         IN  IF ~IntGreater(p, ps)
             THEN SelectLoopGE(match, i + 1, match[i].m0, ps)
             ELSE SelectLoopGE(match, i + 1, r, p)

\* the loop over the matches: the values of ref and patchSet after it
RECURSIVE SelectLoop(_, _, _, _)
SelectLoop(match, i, r, p) ==
    IF i > Len(match) THEN [ref |-> r, patchSet |-> p]
    ELSE LET ps == Atoi(match[i].m1).n
         IN  IF IntGreater(ps, p)
             THEN SelectLoop(match, i + 1, match[i].m0, ps)
             ELSE SelectLoop(match, i + 1, r, p)

Select(match) == SelectLoop(match, 1, <<>>, IntZero)

\* variant: the branch name is fetched without the refs/heads/ prefix
BranchRefBare(t) == t

BranchRef(t) == RefsHeads \o t

\* variant: the bootstrap toolchain is looked for on every system
AfterCleanAlways(goos) == "bootstrap"

\* the step after the second clean
AfterClean(goos) == IF goos = "windows" THEN "bootstrap" ELSE "build"

\* variant: the error of a step is ignored
GoesOnAlways(ok) == TRUE

\* a step goes on to the next one only when its error is nil
GoesOn(ok) == ok

MkdirAllEffect(w) == [w EXCEPT !.rootDir = TRUE]

\* a shallow clone: metadata, the default branch checked out, nothing built
CloneEffect(w) ==
    [w EXCEPT !.gitDir = TRUE, !.head = Master, !.fetchHead = NoRef,
              !.gobin = FALSE]

\* git fetch origin r records what it fetched in FETCH_HEAD
FetchEffect(w, r) == [w EXCEPT !.fetchHead = r]

\* git checkout FETCH_HEAD
CheckoutEffect(w) == [w EXCEPT !.head = w.fetchHead]

\* variant: the second clean leaves the built files
CleanIgnoredKeeps(w) == w

\* git clean -q -f -d -X removes the ignored files, the built bin/go included
CleanIgnoredEffect(w) == [w EXCEPT !.gobin = FALSE]

\* the build script leaves bin/go
BuildEffect(w) == [w EXCEPT !.gobin = TRUE]

\* variant: only the lower bound on the number of arguments is tested
ArityOkLoose(a) == Len(a) >= 2

\* the cases 2 and 3 of switch len(os.Args)
ArityOk(a) == Len(a) \in {2, 3}

\* variant: the repository, not the go command, is looked for
InstalledRepo(w) == w.gitDir

\* os.Stat(gobin) succeeds
Installed(w) == w.gobin

Src == <<"s","r","c">>

\* the lines the process prints on standard error
Line(k, t, a) == [kind |-> k, text |-> t, arg |-> a]

PromptLine(t) ==
    Line("prompt",
         "This will download and execute code from golang.org/cl/%s, continue? [y/n] ",
         <<t>>)
FetchingCL(t, p) == Line("info", "Fetching CL %v, Patch Set %v...", <<t, Itoa(p)>>)
FetchingBranch(t) == Line("info", "Fetching branch %v...", <<t>>)
Updating == Line("info", "Updating the go development tree...", <<>>)
Success == Line("success", "Success. You may now run 'gotip'!", <<>>)
FatalLine(e) == Line("error", "gotip: %v", <<e.msg, e.arg>>)

-----------------------------------------------------------------------------
(* The state machine *)

NoPrev == [install |-> FALSE, same |-> FALSE, ok |-> FALSE, allOk |-> FALSE]

Init ==
    /\ os \in {"linux", "windows", "plan9"}
    /\ wc = Absent
    /\ pc = "idle"
    /\ runs = 0
    /\ args = <<>>
    /\ target = <<>>
    /\ answer = <<>>
    /\ remote = <<>>
    /\ refs = <<>>
    /\ ref = <<>>
    /\ patchSet = IntZero
    /\ cmdEnv = "inherit"
    /\ log = <<>>
    /\ err = Nil
    /\ exitCode = -1
    /\ wc0 = Absent
    /\ prev = NoPrev
    /\ out = <<>>
    /\ stdin = <<>>
    /\ built = FALSE
    /\ cmdDir = <<>>

\* variant: the error is printed with log.Printf, and RunTip goes on to the
\* success line and os.Exit(0)
FatalfPrintf(o, e) ==
    /\ pc' = "exited"
    /\ err' = e
    /\ exitCode' = 0
    /\ out' = o \o <<FatalLine(e), Success>>

\* log.Fatalf("gotip: %v", err) after the process printed o: the error is
\* printed and the process ends with status 1
Fatalf(o, e) ==
    /\ pc' = "exited"
    /\ err' = e
    /\ exitCode' = 1
    /\ out' = Append(o, FatalLine(e))

\* the locals of the change-request block are gone once the block is left
DropLocals ==
    /\ answer' = <<>>
    /\ remote' = <<>>
    /\ refs' = <<>>
    /\ ref' = <<>>
    /\ patchSet' = IntZero

KeepLocals == UNCHANGED <<answer, remote, refs, ref, patchSet>>

IsDownload(a) == Len(a) > 1 /\ a[2] = Download

\* a new process is started with os.Args = a; goroot("gotip") is taken to
\* succeed, and the locals of installTip start from their zero values
Exec(a) ==
    /\ pc \in {"idle", "exited"}
    /\ runs < MaxRuns
    /\ runs' = runs + 1
    /\ args' = a
    /\ prev' = IF pc = "idle" THEN NoPrev
                ELSE [install |-> IsDownload(args) /\ Len(args) \in {2, 3},
                      same |-> args = a,
                      ok |-> err = Nil,
                      allOk |-> \A i \in 1..Len(log) : log[i].ok]
    /\ wc0' = wc
    /\ cmdEnv' = "inherit"
    /\ cmdDir' = <<>>
    /\ stdin' = <<>>
    /\ DropLocals
    /\ UNCHANGED <<os, built>>

\* RunTip, download with zero or one argument: installTip is entered and
\* looks for the version-control metadata
RunTipDownload ==
    \E a \in Argvs :
        /\ Exec(a)
        /\ IsDownload(a)
        /\ ArityOk(a)
        /\ target' = IF Len(a) = 2 THEN <<>> ELSE a[3]
        /\ pc' = IF NeedsClone(wc) THEN "mkdir" ELSE "classify"
        /\ log' = <<>>
        /\ out' = <<>>
        /\ err' = Nil
        /\ exitCode' = -1
        /\ UNCHANGED wc

\* RunTip, download with more arguments
RunTipUsage ==
    \E a \in Argvs :
        /\ Exec(a)
        /\ IsDownload(a)
        /\ ~ArityOk(a)
        /\ target' = <<>>
        /\ log' = <<>>
        /\ Fatalf(<<>>, Error("usage: gotip download [CL number | branch name]", <<>>))
        /\ UNCHANGED wc

\* RunTip without download: the built go command is run if it is there
RunTipGo ==
    \E a \in Argvs :
        /\ Exec(a)
        /\ ~IsDownload(a)
        /\ target' = <<>>
        /\ IF Installed(wc)
           THEN /\ log' = <<Op("runGo", <<>>, TRUE)>>
                /\ out' = <<>>
                /\ pc' = "exited"
                /\ err' = Nil
                /\ \E c \in {0, 1} : exitCode' = c
           ELSE /\ log' = <<>>
                /\ Fatalf(<<>>, Error("not downloaded", <<>>))
        /\ UNCHANGED wc

Frame == UNCHANGED <<os, runs, args, target, wc0, prev>>

MkdirAll ==
    /\ pc = "mkdir"
    /\ \E ok \in BOOLEAN :
        /\ log' = Append(log, Op("mkdir", <<>>, ok))
        /\ IF GoesOn(ok)
           THEN /\ wc' = MkdirAllEffect(wc)
                /\ pc' = "clone"
                /\ UNCHANGED <<err, exitCode, out>>
           ELSE /\ Fatalf(out, Error("failed to create repository", <<>>))
                /\ UNCHANGED wc
    /\ KeepLocals
    /\ UNCHANGED <<cmdEnv, cmdDir, stdin, built>>
    /\ Frame

Clone ==
    /\ pc = "clone"
    /\ \E ok \in BOOLEAN :
        /\ log' = Append(log, Op("clone", <<>>, ok))
        /\ IF GoesOn(ok)
           THEN /\ wc' = CloneEffect(wc)
                /\ pc' = "classify"
                /\ UNCHANGED <<err, exitCode, out>>
           ELSE /\ Fatalf(out, Error("failed to clone git repository", <<>>))
                /\ UNCHANGED wc
    /\ KeepLocals
    /\ UNCHANGED <<cmdEnv, cmdDir, stdin, built>>
    /\ Frame

\* the prompt and fmt.Scanln(&answer) on what the user typed
Prompt ==
    /\ pc = "classify"
    /\ IsCL(target)
    /\ \E input \in StdinLines :
        LET a == Scanln(input)
        IN  /\ stdin' = input
            /\ log' = Append(log, Op("prompt", a, Accepted(a)))
            /\ IF Accepted(a)
               THEN /\ answer' = a
                    /\ pc' = "lsremote"
                    /\ out' = Append(out, PromptLine(target))
                    /\ UNCHANGED <<remote, refs, ref, patchSet, err, exitCode>>
               ELSE /\ Fatalf(Append(out, PromptLine(target)),
                              Error("interrupted", <<>>))
                    /\ DropLocals
    /\ UNCHANGED <<wc, cmdEnv, cmdDir, built>>
    /\ Frame

\* git ls-remote; the line read at the prompt is not looked at again
LsRemote ==
    /\ pc = "lsremote"
    /\ \/ \E l \in Listings :
            /\ GoesOn(TRUE)
            /\ log' = Append(log, Op("ls-remote", <<>>, TRUE))
            /\ remote' = l
            /\ refs' = LsRemoteOutput(l)
            /\ pc' = "resolve"
            /\ UNCHANGED <<answer, ref, patchSet, err, exitCode, out>>
       \/ /\ ~GoesOn(FALSE)
          /\ log' = Append(log, Op("ls-remote", <<>>, FALSE))
          /\ Fatalf(out, Error("failed to list remotes", <<>>))
          /\ DropLocals
    /\ stdin' = <<>>
    /\ UNCHANGED <<wc, cmdEnv, cmdDir, built>>
    /\ Frame

\* the regular expression and the loop over its matches
Resolve ==
    /\ pc = "resolve"
    /\ LET match == FindAllStringSubmatch(target, refs)
       IN  IF NoMatch(match)
           THEN /\ Fatalf(out, Error("CL not found", target))
                /\ DropLocals
           ELSE /\ ref' = Select(match).ref
                /\ patchSet' = Select(match).patchSet
                /\ pc' = "fetchCL"
                /\ UNCHANGED <<answer, remote, refs, err, exitCode, out>>
    /\ UNCHANGED <<wc, cmdEnv, cmdDir, stdin, built, log>>
    /\ Frame

\* the line l is printed, then git fetch origin r is run, with the error e
\* of its call site
Fetch(r, l, e) ==
    /\ \E ok \in BOOLEAN :
        /\ log' = Append(log, Op("fetch", r, ok))
        /\ IF GoesOn(ok)
           THEN /\ wc' = FetchEffect(wc, r)
                /\ pc' = "checkout"
                /\ out' = Append(out, l)
                /\ UNCHANGED <<err, exitCode>>
           ELSE /\ Fatalf(Append(out, l), e)
                /\ UNCHANGED wc
    /\ DropLocals
    /\ UNCHANGED <<cmdEnv, cmdDir, stdin, built>>
    /\ Frame

FetchCL ==
    /\ pc = "fetchCL"
    /\ Fetch(ref, FetchingCL(target, patchSet), Error("failed to fetch", ref))

FetchBranch ==
    /\ pc = "classify"
    /\ ~IsCL(target)
    /\ target # <<>>
    /\ Fetch(BranchRef(target), FetchingBranch(target),
             Error("failed to fetch", BranchRef(target)))

FetchMaster ==
    /\ pc = "classify"
    /\ ~IsCL(target)
    /\ target = <<>>
    /\ Fetch(Master, Updating,
             Error("failed to fetch git repository updates", <<>>))

\* variant: the checkout reports its failure with the message of the clean
CheckoutCleanupMsg ==
    /\ pc = "checkout"
    /\ \E ok \in BOOLEAN :
        /\ log' = Append(log, Op("checkout", <<>>, ok))
        /\ IF GoesOn(ok)
           THEN /\ wc' = CheckoutEffect(wc)
                /\ pc' = "cleanI"
                /\ UNCHANGED <<err, exitCode, out>>
           ELSE /\ Fatalf(out, Error("failed to cleanup git repository", <<>>))
                /\ UNCHANGED wc
    /\ KeepLocals
    /\ UNCHANGED <<cmdEnv, cmdDir, stdin, built>>
    /\ Frame

Checkout ==
    /\ pc = "checkout"
    /\ \E ok \in BOOLEAN :
        /\ log' = Append(log, Op("checkout", <<>>, ok))
        /\ IF GoesOn(ok)
           THEN /\ wc' = CheckoutEffect(wc)
                /\ pc' = "cleanI"
                /\ UNCHANGED <<err, exitCode, out>>
           ELSE /\ Fatalf(out, Error("failed to checkout git repository", <<>>))
                /\ UNCHANGED wc
    /\ KeepLocals
    /\ UNCHANGED <<cmdEnv, cmdDir, stdin, built>>
    /\ Frame

\* git clean -i -d: what it removes is the user's choice and is not tracked
CleanInteractive ==
    /\ pc = "cleanI"
    /\ \E ok \in BOOLEAN :
        /\ log' = Append(log, Op("clean -i", <<>>, ok))
        /\ IF GoesOn(ok)
           THEN /\ pc' = "cleanX"
                /\ UNCHANGED <<err, exitCode, out>>
           ELSE Fatalf(out, Error("failed to cleanup git repository", <<>>))
    /\ KeepLocals
    /\ UNCHANGED <<wc, cmdEnv, cmdDir, stdin, built>>
    /\ Frame

\* git clean -q -f -d -X, then the build command is made with its directory
CleanIgnored ==
    /\ pc = "cleanX"
    /\ \E ok \in BOOLEAN :
        /\ log' = Append(log, Op("clean -X", <<>>, ok))
        /\ IF GoesOn(ok)
           THEN /\ wc' = CleanIgnoredEffect(wc)
                /\ cmdDir' = Src
                /\ pc' = AfterClean(os)
                /\ UNCHANGED <<err, exitCode, out>>
           ELSE /\ Fatalf(out, Error("failed to cleanup git repository", <<>>))
                /\ UNCHANGED <<wc, cmdDir>>
    /\ KeepLocals
    /\ UNCHANGED <<cmdEnv, stdin, built>>
    /\ Frame

\* go env GOROOT, on windows only
Bootstrap ==
    /\ pc = "bootstrap"
    /\ \E ok \in BOOLEAN :
        /\ log' = Append(log, Op("go env GOROOT", <<>>, ok))
        /\ IF GoesOn(ok)
           THEN /\ cmdEnv' = "GOROOT_BOOTSTRAP"
                /\ pc' = "build"
                /\ UNCHANGED <<err, exitCode, out>>
           ELSE /\ Fatalf(out, Error("failed to detect an existing go installation for bootstrap", <<>>))
                /\ UNCHANGED cmdEnv
    /\ KeepLocals
    /\ UNCHANGED <<wc, cmdDir, stdin, built>>
    /\ Frame

\* the build script; on success installTip returns nil, RunTip prints the
\* success line and exits 0
Build ==
    /\ pc = "build"
    /\ \E ok \in BOOLEAN :
        /\ log' = Append(log, Op("build", makeScript(os), ok))
        /\ IF GoesOn(ok)
           THEN /\ wc' = BuildEffect(wc)
                /\ built' = TRUE
                /\ pc' = "exited"
                /\ err' = Nil
                /\ exitCode' = 0
                /\ out' = Append(out, Success)
           ELSE /\ Fatalf(out, Error("failed to build go", <<>>))
                /\ UNCHANGED <<wc, built>>
    /\ KeepLocals
    /\ UNCHANGED <<cmdEnv, cmdDir, stdin>>
    /\ Frame

Next ==
    \/ RunTipDownload
    \/ RunTipUsage
    \/ RunTipGo
    \/ MkdirAll
    \/ Clone
    \/ Prompt
    \/ LsRemote
    \/ Resolve
    \/ FetchCL
    \/ FetchBranch
    \/ FetchMaster
    \/ Checkout
    \/ CleanInteractive
    \/ CleanIgnored
    \/ Bootstrap
    \/ Build

Spec == Init /\ [][Next]_vars

-----------------------------------------------------------------------------
(* Vocabulary of the properties *)

\* the process runs installTip
Installing == IsDownload(args) /\ Len(args) \in {2, 3}

OpsOf(o) == {i \in 1..Len(log) : log[i].op = o}
Ran(o) == OpsOf(o) # {}
AllOk == \A i \in 1..Len(log) : log[i].ok
LastOp == log[Len(log)]

\* a string of decimal digits without a leading zero: a positive integer
LooksLikeCL(t) == Len(t) > 0 /\ IsDigits(t) /\ t[1] # "0"

RECURSIVE DecimalValue(_)
DecimalValue(s) ==
    IF Len(s) = 0 THEN 0
    ELSE 10 * DecimalValue(SubSeq(s, 1, Len(s) - 1)) + DigitVal(s[Len(s)])

\* a line of the listing is a candidate for change n when its ref-path is
\* refs/changes/<2-digit-shard>/<n>/<patch-set>
IsCandidate(line, n) ==
    /\ Len(line.segs) = 5
    /\ line.segs[1] = SegRefs
    /\ line.segs[2] = SegChanges
    /\ Len(line.segs[3]) = 2
    /\ IsDigits(line.segs[3])
    /\ line.segs[4] = n
    /\ Len(line.segs[5]) > 0
    /\ IsDigits(line.segs[5])

Candidates(l, n) == {i \in 1..Len(l) : IsCandidate(l[i], n)}
PatchSetOf(line) == DecimalValue(line.segs[5])

StepRank(o) ==
    CASE o = "mkdir" -> 1 [] o = "clone" -> 2 [] o = "prompt" -> 3
      [] o = "ls-remote" -> 4 [] o = "fetch" -> 5 [] o = "checkout" -> 6
      [] o = "clean -i" -> 7 [] o = "clean -X" -> 8
      [] o = "go env GOROOT" -> 9 [] o = "build" -> 10 [] OTHER -> 0

\* the operations after the fetch
LaterOps == {"checkout", "clean -i", "clean -X", "go env GOROOT", "build"}

-----------------------------------------------------------------------------
(* C1: when the listing has a line matching the change number, the        *)
(* reference passed to fetch is the ref-path of a matching candidate whose *)
(* patch-set number is at least that of every other matching candidate,    *)
(* also when the only matching patch-set number is 0.                      *)
C1_FetchesMaxPatchSet ==
    [][(pc = "fetchCL" /\ pc' # "fetchCL" /\ Candidates(remote, target) # {})
         => \E i \in Candidates(remote, target) :
                /\ log'[Len(log')].op = "fetch"
                /\ log'[Len(log')].arg = Path(remote[i])
                /\ \A j \in Candidates(remote, target) :
                       PatchSetOf(remote[j]) <= PatchSetOf(remote[i])]_vars

(* C2: a Target is treated as a change-request number (prompt, then a      *)
(* fetch) exactly when it is a string of decimal digits without a leading  *)
(* zero, of any length; any other non-empty Target is fetched as           *)
(* refs/heads/<Target> and the empty Target as master, without a prompt.   *)
C2_Classification ==
    (Installing /\ Ran("fetch")) =>
        /\ LooksLikeCL(target) => Ran("prompt")
        /\ (~LooksLikeCL(target) /\ target # <<>>) =>
              /\ ~Ran("prompt")
              /\ \A i \in OpsOf("fetch") : log[i].arg = RefsHeads \o target
        /\ target = <<>> =>
              /\ ~Ran("prompt")
              /\ \A i \in OpsOf("fetch") : log[i].arg = Master

(* C3, as amended: when the user declines the prompt the process ends    *)
(* with the Interrupted error and no listing, fetch, checkout, clean or    *)
(* build has run; the Working Copy is as it was before the process when    *)
(* the metadata was present then, and as directory creation and clone      *)
(* left it when the metadata was absent.                                   *)
C3_DeclineKeepsClonedState ==
    \A i \in OpsOf("prompt") :
        log[i].arg # <<"y">> =>
            /\ i = Len(log)
            /\ pc = "exited"
            /\ err = Error("interrupted", <<>>)
            /\ exitCode = 1
            /\ wc = IF wc0.gitDir THEN wc0
                    ELSE CloneEffect(MkdirAllEffect(wc0))
            /\ \A j \in 1..Len(log) :
                   log[j].op \notin {"ls-remote", "fetch"} \cup LaterOps

\* C3 as stated: after a declined prompt the Working Copy is exactly as it
\* was before the process started, whatever that state was
C3_DeclineChangesNothing ==
    \A i \in OpsOf("prompt") :
        log[i].arg # <<"y">> =>
            /\ pc = "exited"
            /\ err = Error("interrupted", <<>>)
            /\ wc = wc0

C3_Witness ==
    /\ pc = "exited"
    /\ err = Error("interrupted", <<>>)
    /\ ~wc0.gitDir
    /\ wc.gitDir

(* C4: a fetch of a refs/changes/ reference, and the remote listing, come  *)
(* only after the prompt was answered "y" in the same process; a process   *)
(* that fetches a branch or master shows no prompt, and a prompt is shown  *)
(* only for a decimal Target.                                              *)
C4_PromptGatesChangeFetch ==
    /\ \A i \in 1..Len(log) :
          (\/ log[i].op = "ls-remote"
           \/ log[i].op = "fetch" /\ HasPrefix(log[i].arg, RefsChanges)
           \/ log[i].op \in LaterOps /\ Ran("prompt"))
          => \E j \in 1..(i - 1) :
                 log[j].op = "prompt" /\ log[j].arg = <<"y">>
    /\ (\E i \in OpsOf("fetch") :
            HasPrefix(log[i].arg, RefsHeads) \/ log[i].arg = Master)
          => ~Ran("prompt")
    /\ Ran("prompt") => LooksLikeCL(target)

C4_Witness ==
    /\ pc = "exited"
    /\ err = Nil
    /\ \E i \in OpsOf("fetch") :
           HasPrefix(log[i].arg, RefsChanges) /\ log[i].ok

(* C5: the operations of a download run in the order clone-if-absent,      *)
(* fetch, checkout, interactive clean, ignored-files clean, build; each    *)
(* follows the success of the one before it, none runs twice, the first    *)
(* failure ends the process with an error, and the process succeeds only   *)
(* after the build succeeded.                                              *)
C5_StepsInOrder ==
    Installing =>
        /\ \A i \in 1..(Len(log) - 1) :
              /\ StepRank(log[i].op) < StepRank(log[i + 1].op)
              /\ log[i].ok
        /\ \A i \in 1..Len(log) :
              LET before == IF i = 1 THEN "none" ELSE log[i - 1].op
              IN  CASE log[i].op = "mkdir" -> before = "none"
                    [] log[i].op = "clone" -> before = "mkdir"
                    [] log[i].op = "prompt" -> before \in {"none", "clone"}
                    [] log[i].op = "ls-remote" -> before = "prompt"
                    [] log[i].op = "fetch" ->
                          before \in {"none", "clone", "ls-remote"}
                    [] log[i].op = "checkout" -> before = "fetch"
                    [] log[i].op = "clean -i" -> before = "checkout"
                    [] log[i].op = "clean -X" -> before = "clean -i"
                    [] log[i].op = "go env GOROOT" -> before = "clean -X"
                    [] log[i].op = "build" ->
                          before \in {"clean -X", "go env GOROOT"}
                    [] OTHER -> FALSE
        /\ (Len(log) > 0 /\ ~LastOp.ok) =>
              (pc = "exited" /\ err # Nil /\ exitCode = 1)
        /\ (pc = "exited" /\ err = Nil) =>
              /\ Len(log) > 0
              /\ LastOp = Op("build", makeScript(os), TRUE)
              /\ wc.gobin
              /\ exitCode = 0

C5_Witness ==
    /\ Installing
    /\ pc = "exited"
    /\ err = Nil
    /\ Ran("clone")
    /\ Ran("build")

(* C6: when no line of the listing matches the change number, the process *)
(* ends with the error "CL <n> not found" and has run no fetch, checkout,  *)
(* clean or build, however many other lines the listing has.               *)
C6_NoMatchNotFound ==
    [][(pc = "resolve" /\ Candidates(remote, target) = {})
         => /\ pc' = "exited"
            /\ err' = Error("CL not found", target)
            /\ exitCode' = 1
            /\ wc' = wc
            /\ log' = log
            /\ \A i \in 1..Len(log) :
                   log[i].op \notin {"fetch"} \cup LaterOps]_vars

C6_Witness ==
    /\ pc = "exited"
    /\ err = Error("CL not found", <<"5">>)
    /\ LastOp = Op("ls-remote", <<>>, TRUE)

(* C7: when the metadata is absent at the start of a download, directory   *)
(* creation and clone come first, before any prompt or fetch; when it is   *)
(* present, neither is run and the first operation is the prompt or the    *)
(* fetch.                                                                  *)
C7_CloneIffAbsent ==
    Installing =>
        /\ wc0.gitDir =>
              /\ ~Ran("mkdir")
              /\ ~Ran("clone")
              /\ Len(log) > 0 => log[1].op \in {"prompt", "fetch"}
        /\ ~wc0.gitDir =>
              /\ Len(log) > 0 => log[1].op = "mkdir"
              /\ \A i \in OpsOf("fetch") \cup OpsOf("prompt") :
                    /\ i > 2
                    /\ log[1] = Op("mkdir", <<>>, TRUE)
                    /\ log[2] = Op("clone", <<>>, TRUE)

C7_Witness ==
    /\ Installing
    /\ runs > 1
    /\ prev.install
    /\ wc0.gitDir
    /\ Ran("fetch")
    /\ ~Ran("clone")

(* C8, as amended: two downloads in succession with the same Target, in  *)
(* which every subprocess succeeds, the prompt is accepted where shown and *)
(* a change-request Target matches a line of the listing, both succeed and *)
(* leave the built binary; the second runs no directory creation or clone. *)
C8_TwiceBuilt ==
    (pc = "exited" /\ Installing /\ AllOk /\ err.msg # "CL not found") =>
        /\ err = Nil
        /\ exitCode = 0
        /\ wc.gobin
        /\ wc.head = wc.fetchHead
        /\ (prev.install /\ prev.same /\ prev.ok) =>
              (~Ran("mkdir") /\ ~Ran("clone"))

\* C8 as stated: every subprocess succeeding and the prompt accepted is
\* enough for both downloads to succeed
C8_TwiceSucceeds ==
    (/\ pc = "exited"
     /\ Installing
     /\ AllOk
     /\ prev.install
     /\ prev.same
     /\ prev.allOk) =>
        /\ prev.ok
        /\ err = Nil
        /\ wc.gobin
        /\ ~Ran("clone")

C8_Witness ==
    /\ pc = "exited"
    /\ Installing
    /\ prev.install
    /\ prev.same
    /\ prev.ok
    /\ Ran("prompt")
    /\ err = Nil
    /\ wc.gobin

\* every subprocess the process ran succeeded
SubprocessesOk == \A i \in 1..Len(log) : log[i].op # "prompt" => log[i].ok

(* C9, as amended: a download that follows a failed download clones        *)
(* exactly when the metadata is absent at its start and, provided every    *)
(* subprocess succeeds, the prompt is accepted where shown and a           *)
(* change-request Target matches a line of the listing, runs every step    *)
(* from the fetch to the build and leaves the built binary.                *)
C9_RestartAfterFailure ==
    (/\ pc = "exited"
     /\ Installing
     /\ prev.install
     /\ ~prev.ok
     /\ AllOk
     /\ err.msg # "CL not found") =>
        /\ err = Nil
        /\ wc.gobin
        /\ Ran("mkdir") <=> ~wc0.gitDir
        /\ Ran("clone") <=> ~wc0.gitDir
        /\ \A o \in {"fetch", "checkout", "clean -i", "clean -X", "build"} :
               Cardinality(OpsOf(o)) = 1

\* C9 as stated: the success of every subprocess is enough for the later
\* download to reach the built state
C9_RestartReachesBuilt ==
    (/\ pc = "exited"
     /\ Installing
     /\ prev.install
     /\ ~prev.ok
     /\ SubprocessesOk) =>
        /\ err = Nil
        /\ wc.gobin
        /\ Ran("clone") <=> ~wc0.gitDir

C9_Witness ==
    /\ pc = "exited"
    /\ Installing
    /\ prev.install
    /\ ~prev.ok
    /\ wc0.rootDir
    /\ ~wc0.gitDir
    /\ err = Nil
    /\ wc.gobin

(* C10: a process that shows no prompt fetches one reference only,         *)
(* refs/heads/<Target> for a non-empty Target and master for the empty     *)
(* one, and never runs the remote listing; this is the case of every       *)
(* Target that is not a decimal number.                                    *)
C10_BranchAndDefaultRefs ==
    Installing =>
        /\ ~Ran("prompt") =>
              /\ ~Ran("ls-remote")
              /\ Cardinality(OpsOf("fetch")) <= 1
              /\ pc \in {"checkout", "cleanI", "cleanX", "bootstrap", "build"}
                    => Cardinality(OpsOf("fetch")) = 1
              /\ \A i \in OpsOf("fetch") :
                    log[i].arg = IF target = <<>> THEN Master
                                 ELSE RefsHeads \o target
        /\ ~LooksLikeCL(target) => ~Ran("prompt")

C10_Witness ==
    /\ pc = "checkout"
    /\ target = <<"0", "5">>
    /\ LastOp = Op("fetch", RefsHeads \o <<"0", "5">>, TRUE)

-----------------------------------------------------------------------------
(* Vocabulary of the properties, continued *)

UsageMsg == "usage: gotip download [CL number | branch name]"
NotInstalledMsg == "not downloaded"

LinesOf(k) == {i \in 1..Len(out) : out[i].kind = k}

\* installTip returned nil: the build script was the last operation and ended
\* without error
InstallReturnedNil ==
    /\ Installing
    /\ Len(log) > 0
    /\ LastOp.op = "build"
    /\ LastOp.ok

(* C11: download takes zero or one positional argument: with them the     *)
(* install sequence is entered and no usage error is reported; with two or *)
(* more the process ends with the usage error, has run no operation (no    *)
(* clone, fetch, checkout, clean or build), and the Working Copy is as it  *)
(* was when the process started.                                           *)
C11_ExtraArgumentsUsage ==
    (IsDownload(args) /\ pc # "idle") =>
        /\ Len(args) \in {2, 3} => err.msg # UsageMsg
        /\ Len(args) > 3 =>
              /\ pc = "exited"
              /\ err.msg = UsageMsg
              /\ exitCode = 1
              /\ log = <<>>
              /\ wc = wc0

C11_Witness ==
    /\ IsDownload(args)
    /\ Len(args) = 4
    /\ pc = "exited"
    /\ err.msg = UsageMsg
    /\ wc.gobin

(* C12, as stated: a process without download leaves the Working Copy as   *)
(* it was, runs the built go command when the Build Output is present and  *)
(* otherwise ends with the NotInstalled error, and it ends with            *)
(* NotInstalled only if no build has ever succeeded.                       *)
C12_NotInstalledOnlyNeverBuilt ==
    (~IsDownload(args) /\ pc = "exited") =>
        /\ wc = wc0
        /\ wc.gobin => (err = Nil /\ log = <<Op("runGo", <<>>, TRUE)>>)
        /\ ~wc.gobin => (err.msg = NotInstalledMsg /\ log = <<>>)
        /\ err.msg = NotInstalledMsg => ~built

(* C12, as amended: a process without download leaves the Working Copy    *)
(* as it was, runs the built go command when the Build Output is present   *)
(* and otherwise ends with the NotInstalled error with status 1; it ends   *)
(* with NotInstalled exactly when the Build Output is absent, whether or   *)
(* not a build succeeded before.                                           *)
C12_NotInstalledIffAbsent ==
    (~IsDownload(args) /\ pc = "exited") =>
        /\ wc = wc0
        /\ wc.gobin => (err = Nil /\ log = <<Op("runGo", <<>>, TRUE)>>)
        /\ ~wc.gobin =>
              (err.msg = NotInstalledMsg /\ log = <<>> /\ exitCode = 1)
        /\ err.msg = NotInstalledMsg <=> ~wc.gobin

C12_Witness ==
    /\ ~IsDownload(args)
    /\ pc = "exited"
    /\ err.msg = NotInstalledMsg
    /\ built
    /\ wc.gitDir

(* C13: a download process prints the success line and exits with status  *)
(* 0 exactly when the install sequence returned without error, the Build   *)
(* Output then being present; every other download process that has ended  *)
(* printed exactly one error message, as its last line, exited with a      *)
(* non-zero status and printed no success line; a process still running    *)
(* has printed neither.                                                    *)
C13_SuccessIffInstalled ==
    (IsDownload(args) /\ pc # "idle") =>
        /\ pc # "exited" => (LinesOf("success") = {} /\ LinesOf("error") = {})
        /\ pc = "exited" =>
              /\ (LinesOf("success") # {} /\ exitCode = 0)
                     <=> InstallReturnedNil
              /\ InstallReturnedNil =>
                    /\ Cardinality(LinesOf("success")) = 1
                    /\ out[Len(out)] = Success
                    /\ LinesOf("error") = {}
                    /\ err = Nil
                    /\ wc.gobin
              /\ ~InstallReturnedNil =>
                    /\ Cardinality(LinesOf("error")) = 1
                    /\ out[Len(out)] = FatalLine(err)
                    /\ err # Nil
                    /\ exitCode > 0
                    /\ LinesOf("success") = {}

C13_Witness ==
    /\ pc = "exited"
    /\ InstallReturnedNil
    /\ LinesOf("success") # {}
    /\ prev.install
    /\ ~prev.ok

\* the candidates of the listing l for change n that carry its largest
\* patch-set number
MaxCandidates(l, n) ==
    {i \in Candidates(l, n) :
        \A j \in Candidates(l, n) : PatchSetOf(l[j]) <= PatchSetOf(l[i])}

Tied(l, n) ==
    /\ Cardinality(MaxCandidates(l, n)) > 1
    /\ \A i \in MaxCandidates(l, n) : PatchSetOf(l[i]) >= 1

FirstOf(S) == CHOOSE i \in S : \A j \in S : i <= j
LastOf(S) == CHOOSE i \in S : \A j \in S : j <= i

FetchedCL(r) ==
    /\ log'[Len(log')].op = "fetch"
    /\ log'[Len(log')].arg = r

(* C14, as stated: when several candidates for the change carry the same  *)
(* largest patch-set number, the reference passed to fetch is the ref-path *)
(* of the one that comes last in the listing.                              *)
C14_TieLastWins ==
    [][(pc = "fetchCL" /\ pc' # "fetchCL" /\ Tied(remote, target))
         => FetchedCL(Path(remote[LastOf(MaxCandidates(remote, target))]))]_vars

(* C14, as amended: when several candidates for the change carry the same *)
(* largest patch-set number, and that number is at least 1, the reference  *)
(* passed to fetch is the ref-path of the one that comes first in the      *)
(* listing.                                                                *)
C14_TieFirstWins ==
    [][(pc = "fetchCL" /\ pc' # "fetchCL" /\ Tied(remote, target))
         => FetchedCL(Path(remote[FirstOf(MaxCandidates(remote, target))]))]_vars

C14_Witness ==
    /\ pc = "fetchCL"
    /\ Tied(remote, target)
    /\ ref = Path(remote[FirstOf(MaxCandidates(remote, target))])
    /\ ref # Path(remote[LastOf(MaxCandidates(remote, target))])

\* the steps the claim names, and the message prefix that belongs to each
StepName(o) == IF o \in {"clean -i", "clean -X"} THEN "clean" ELSE o

ExpectedStep(m) ==
    CASE m = "failed to create repository" -> "mkdir"
      [] m = "failed to clone git repository" -> "clone"
      [] m = "failed to list remotes" -> "ls-remote"
      [] m = "failed to fetch" -> "fetch"
      [] m = "failed to fetch git repository updates" -> "fetch"
      [] m = "failed to checkout git repository" -> "checkout"
      [] m = "failed to cleanup git repository" -> "clean"
      [] m = "failed to detect an existing go installation for bootstrap"
             -> "go env GOROOT"
      [] m = "failed to build go" -> "build"
      [] OTHER -> "none"

FailedOps == {i \in 1..Len(log) : log[i].op # "prompt" /\ ~log[i].ok}

(* C15: in a download process at most one operation fails, it is the last *)
(* one the process runs, and the process ends with the error whose prefix  *)
(* belongs to that step and to no other step (directory creation, clone,   *)
(* listing, fetch, checkout, clean, bootstrap query, build); an error with *)
(* the prefix of a step is produced only when that step failed.            *)
C15_ErrorNamesFirstFailure ==
    (Installing /\ pc # "idle") =>
        /\ FailedOps \subseteq {Len(log)}
        /\ FailedOps # {} =>
              /\ pc = "exited"
              /\ err # Nil
              /\ ExpectedStep(err.msg) = StepName(LastOp.op)
              /\ out[Len(out)] = FatalLine(err)
        /\ ExpectedStep(err.msg) # "none" =>
              /\ FailedOps = {Len(log)}
              /\ StepName(LastOp.op) = ExpectedStep(err.msg)

C15_Witness ==
    /\ Installing
    /\ pc = "exited"
    /\ FailedOps # {}
    /\ LastOp.op = "go env GOROOT"
    /\ err.msg = "failed to detect an existing go installation for bootstrap"
    /\ prev.install
    /\ ~prev.ok

\* r is the Resolved Reference of the Target: the default branch for the
\* empty Target, a ref-path of the listing with the largest patch-set
\* number for a change-request number, the branch ref otherwise
ResolvedReference(r) ==
    IF target = <<>> THEN r = Master
    ELSE IF LooksLikeCL(target)
         THEN \E i \in MaxCandidates(remote, target) : r = Path(remote[i])
         ELSE r = RefsHeads \o target

(* C16: in a process that has come to the checkout exactly one fetch was  *)
(* run, before the checkout and without error, the reference it fetched is *)
(* the one a successful checkout leaves checked out, and every reference    *)
(* passed to fetch is the Resolved Reference of the process's Target.       *)
C16_CheckoutOfOwnFetch ==
    /\ [](Ran("checkout") =>
            \E f \in OpsOf("fetch") :
                /\ OpsOf("fetch") = {f}
                /\ log[f].ok
                /\ \A c \in OpsOf("checkout") :
                      /\ f < c
                      /\ (log[c].ok /\ c = Len(log)) => wc.head = log[f].arg)
    /\ [][(log' # log /\ Len(log') > 0 /\ log'[Len(log')].op = "fetch")
            => ResolvedReference(log'[Len(log')].arg)]_vars

BootstrapMsg == "failed to detect an existing go installation for bootstrap"

\* the operation at index i ran after a successful operation o
After(i, o) == \E j \in OpsOf(o) : j < i /\ log[j].ok

(* C17: the bootstrap query runs only on windows and only after both      *)
(* clean phases ended without error; when it fails the process ends with   *)
(* the bootstrap-detection error and the build script is not run; on       *)
(* windows the build script runs only after a successful query, with       *)
(* GOROOT_BOOTSTRAP added to its environment; on every other system the    *)
(* query is never run and the environment of the build script is the       *)
(* inherited one.                                                          *)
C17_BootstrapOnWindowsOnly ==
    (Installing /\ pc # "idle") =>
        /\ \A i \in OpsOf("go env GOROOT") :
              /\ os = "windows"
              /\ After(i, "clean -i")
              /\ After(i, "clean -X")
              /\ ~log[i].ok =>
                    /\ pc = "exited"
                    /\ err.msg = BootstrapMsg
                    /\ exitCode = 1
                    /\ ~Ran("build")
        /\ os = "windows" =>
              /\ \A i \in OpsOf("build") : After(i, "go env GOROOT")
              /\ (pc = "build" \/ Ran("build")) <=> cmdEnv = "GOROOT_BOOTSTRAP"
        /\ os # "windows" =>
              /\ ~Ran("go env GOROOT")
              /\ cmdEnv = "inherit"

C17_Witness ==
    /\ os = "windows"
    /\ pc = "exited"
    /\ Ran("go env GOROOT")
    /\ LastOp.op = "go env GOROOT"
    /\ ~LastOp.ok
    /\ err.msg = BootstrapMsg
    /\ wc0.gobin

White == {" ", "\t", "\r"}

\* t is the first token of the first line of s: only blanks come before it
\* and a blank, a newline or the end of the input comes after it
IsFirstToken(s, t) ==
    \E i \in 1..Len(s) :
        /\ \A j \in 1..(i - 1) : s[j] \in White
        /\ i + Len(t) - 1 <= Len(s)
        /\ SubSeq(s, i, i + Len(t) - 1) = t
        /\ \/ i + Len(t) > Len(s)
           \/ s[i + Len(t)] \in White \cup {"\n"}

Declines ==
    { <<"Y", "\n">>, <<"y", "e", "s", "\n">>, <<"n", "\n">>, <<"\n">>, <<>> }

(* C18: at the prompt the process goes on to the remote listing exactly   *)
(* when the first token of the line on standard input is "y"; on any other *)
(* input, among them "Y", "yes", "n", an empty line and the end of input,  *)
(* it ends with the Interrupted error and status 1 and has run neither the *)
(* listing nor a fetch.                                                    *)
C18_OnlyLowercaseY ==
    [][(pc = "classify" /\ IsCL(target) /\ pc' # pc) =>
          /\ pc' = "lsremote" <=> IsFirstToken(stdin', <<"y">>)
          /\ stdin' \in Declines => pc' # "lsremote"
          /\ pc' # "lsremote" =>
                /\ pc' = "exited"
                /\ err'.msg = "interrupted"
                /\ exitCode' = 1
                /\ \A i \in 1..Len(log') :
                      log'[i].op \notin {"ls-remote", "fetch"}]_vars

C18_Witness ==
    /\ pc = "exited"
    /\ stdin = <<"y", "e", "s", "\n">>
    /\ err.msg = "interrupted"
    /\ ~Ran("ls-remote")

\* the process passed its ignored-files clean and has not completed a build
CleanedNotBuilt ==
    /\ Installing
    /\ \E i \in OpsOf("clean -X") : log[i].ok
    /\ ~\E i \in OpsOf("build") : log[i].ok

FailedAtBootstrapOrBuild ==
    /\ Installing
    /\ pc = "exited"
    /\ Len(log) > 0
    /\ LastOp.op \in {"go env GOROOT", "build"}
    /\ ~LastOp.ok

(* C19: the Build Output is present only if some build script has ended   *)
(* without error, and it is absent while and after a download process has  *)
(* passed its ignored-files clean without completing its build; presence   *)
(* changes only by a successful build (to present) and by a successful     *)
(* ignored-files clean (to absent), so it carries over between processes;  *)
(* a download that failed at the bootstrap query or at the build leaves it *)
(* absent, and a process without download started next ends with           *)
(* NotInstalled.                                                           *)
C19_BuildOutputLifecycle ==
    /\ [](/\ wc.gobin => built
          /\ CleanedNotBuilt => ~wc.gobin
          /\ FailedAtBootstrapOrBuild => ~wc.gobin)
    /\ [][/\ wc'.gobin # wc.gobin =>
                /\ Len(log') > 0
                /\ log'[Len(log')].ok
                /\ log'[Len(log')].op =
                       IF wc'.gobin THEN "build" ELSE "clean -X"
          /\ (FailedAtBootstrapOrBuild /\ runs' # runs /\ ~IsDownload(args')) =>
                /\ pc' = "exited"
                /\ err'.msg = NotInstalledMsg
                /\ exitCode' = 1]_vars

C19_Witness ==
    /\ built
    /\ wc0.gitDir
    /\ ~IsDownload(args)
    /\ pc = "exited"
    /\ err.msg = NotInstalledMsg
    /\ prev.install
    /\ ~prev.ok
    /\ ~prev.allOk

\* the script the claim names for each host operating system
ScriptFor(goos) ==
    CASE goos = "plan9" -> <<"m","a","k","e",".","r","c">>
      [] goos = "windows" -> <<"m","a","k","e",".","b","a","t">>
      [] OTHER -> <<"m","a","k","e",".","b","a","s","h">>

(* C20: the build script run is make.rc on plan9, make.bat on windows and *)
(* make.bash on every other system, whatever the Target and the Working    *)
(* Copy are, and the working directory of the build command is the source  *)
(* subtree src of the Working Copy.                                        *)
C20_ScriptByHostOnly ==
    /\ \A i \in OpsOf("build") : log[i].arg = ScriptFor(os)
    /\ (pc = "build" \/ Ran("build")) => cmdDir = <<"s", "r", "c">>

C20_Witness ==
    /\ os = "plan9"
    /\ Ran("build")
    /\ LastOp.ok
    /\ target # <<>>
    /\ wc0.gobin

====
